---- MODULE Spec2Model ----
(***************************************************************************)
(* Model of src/main.js: the page script of the business website.          *)
(* State: the contact form's fields and their error displays, the          *)
(* localStorage item 'contactFormData', the submit control, the requests   *)
(* in flight, the two message regions, the mobile menu, scroll and focus.  *)
(* One action per browser event the script handles, plus a page reload.    *)
(* Strings are sequences of one-character strings so that trim, length     *)
(* and the e-mail pattern are computed as the script computes them.        *)
(***************************************************************************)
EXTENDS Integers, Sequences, FiniteSets, TLC

(* ---------------------------------------------------------------- bounds *)
\* requests that may be awaiting their response at the same time
MaxInFlight == 2
\* longest value handed to validateField for a multiline field
MaxTextLen == 11
\* longest value handed to validateField for an email field
MaxEmailLen == 6

(* ------------------------------------------------------------- constants *)
Breakpoint == 768
MinLength == 10
STORAGE_KEY == "contactFormData"
SendingLabel == "Sending..."
OriginalLabel == "Send Message"
RequiredMsg == "This field is required."
EmailMsg == "Please enter a valid email address."
LengthMsg == "Please provide more details (at least 10 characters)."
NoMsg == ""

(* ------------------------------------------------------- the form fields *)
\* formInputs, in document order
formInputs == <<"name", "email", "message">>
Fields == {formInputs[i] : i \in 1..Len(formInputs)}

\* field.type / field.tagName of each tracked field
FieldKind(f) == CASE f = "email" -> "email"
                  [] f = "message" -> "TEXTAREA"
                  [] OTHER -> "text"

\* field.hasAttribute('required')
Required(f) == TRUE

Empty == <<>>
Blank == <<" ">>
NameVal == <<"A", "l">>
BadEmail == <<"a", "@", "b">>
GoodEmail == <<"a", "@", "b", ".", "c">>
ShortText == <<"h", "i", " ", "y", "o", "u">>
LongText == <<"h", "e", "l", "l", "o", " ", "t", "h", "e", "r", "e">>

\* what the user may type into each field
InputValues(f) == CASE f = "name" -> {Empty, Blank, NameVal}
                    [] f = "email" -> {Empty, BadEmail, GoodEmail}
                    [] OTHER -> {Empty, ShortText, LongText}

(* --------------------------------------------------------- string helpers *)
\* the ECMAScript WhiteSpace and LineTerminator code points, which both \s and
\* String.prototype.trim use; those without an escape are written U+hhhh
WhiteSpaceChars ==
    {"\t", "\n", "U+000B", "\f", "\r", " ", "U+00A0", "U+1680",
     "U+2000", "U+2001", "U+2002", "U+2003", "U+2004", "U+2005", "U+2006",
     "U+2007", "U+2008", "U+2009", "U+200A", "U+2028", "U+2029", "U+202F",
     "U+205F", "U+3000", "U+FEFF"}

IsSpace(c) == c \in WhiteSpaceChars

RECURSIVE TrimStart(_)
TrimStart(s) == IF s = <<>> THEN <<>>
                ELSE IF IsSpace(Head(s)) THEN TrimStart(Tail(s)) ELSE s

RECURSIVE TrimEnd(_)
TrimEnd(s) == IF s = <<>> THEN <<>>
              ELSE IF IsSpace(s[Len(s)]) THEN TrimEnd(SubSeq(s, 1, Len(s) - 1)) ELSE s

\* String.prototype.trim
Trim(s) == TrimEnd(TrimStart(s))

emailRegexTestNoDot(s) ==
    \E i \in 1..Len(s) :
        /\ s[i] = "@"
        /\ 1 < i
        /\ i < Len(s)
        /\ \A k \in 1..Len(s) : k # i => (~IsSpace(s[k]) /\ s[k] # "@")

\* /^[^\s@]+@[^\s@]+\.[^\s@]+$/.test(s)
emailRegexTest(s) ==
    \E i \in 1..Len(s) : \E j \in 1..Len(s) :
        /\ s[i] = "@"
        /\ s[j] = "."
        /\ 1 < i
        /\ i + 1 < j
        /\ j < Len(s)
        /\ \A k \in 1..Len(s) : k # i => (~IsSpace(s[k]) /\ s[k] # "@")

(* -------------------------------------------------------------- validation *)
validateFieldOfInclusive(kind, required, raw) ==
    LET value == Trim(raw)
        r1 == IF required /\ value = Empty
              THEN [isValid |-> FALSE, errorMessage |-> RequiredMsg]
              ELSE [isValid |-> TRUE, errorMessage |-> NoMsg]
        r2 == IF kind = "email" /\ value # Empty /\ ~emailRegexTest(value)
              THEN [isValid |-> FALSE, errorMessage |-> EmailMsg]
              ELSE r1
        r3 == IF kind = "TEXTAREA" /\ value # Empty /\ Len(value) <= MinLength
              THEN [isValid |-> FALSE, errorMessage |-> LengthMsg]
              ELSE r2
    IN r3

\* validateField: the three rule blocks in order, a later failing rule
\* overwriting the message of an earlier one
validateFieldOf(kind, required, raw) ==
    LET value == Trim(raw)
        r1 == IF required /\ value = Empty
              THEN [isValid |-> FALSE, errorMessage |-> RequiredMsg]
              ELSE [isValid |-> TRUE, errorMessage |-> NoMsg]
        r2 == IF kind = "email" /\ value # Empty /\ ~emailRegexTest(value)
              THEN [isValid |-> FALSE, errorMessage |-> EmailMsg]
              ELSE r1
        r3 == IF kind = "TEXTAREA" /\ value # Empty /\ Len(value) < MinLength
              THEN [isValid |-> FALSE, errorMessage |-> LengthMsg]
              ELSE r2
    IN r3

validateField(f, raw) == validateFieldOf(FieldKind(f), Required(f), raw)

\* the message validateField hands to showFieldError
ShownMessage(f, raw) ==
    IF validateField(f, raw).isValid THEN NoMsg ELSE validateField(f, raw).errorMessage

\* a validateForm that stops at the first failing field: its index in formInputs, 0 if none fails
FirstFailing(flds) ==
    IF \E i \in 1..Len(formInputs) : ShownMessage(formInputs[i], flds[formInputs[i]]) # NoMsg
    THEN CHOOSE i \in 1..Len(formInputs) :
            /\ ShownMessage(formInputs[i], flds[formInputs[i]]) # NoMsg
            /\ \A j \in 1..(i - 1) : ShownMessage(formInputs[j], flds[formInputs[j]]) = NoMsg
    ELSE 0

validateFormErrorsFirstOnly(flds, errs) ==
    [f \in Fields |->
        LET i == CHOOSE k \in 1..Len(formInputs) : formInputs[k] = f
        IN IF FirstFailing(flds) = 0 \/ i <= FirstFailing(flds)
           THEN ShownMessage(f, flds[f]) ELSE errs[f]]

\* the error displays after validateForm: validateField, hence showFieldError,
\* has run on every field
validateFormErrors(flds, errs) == [f \in Fields |-> ShownMessage(f, flds[f])]

validateFormAlways(flds) == TRUE

\* validateForm's return value
validateForm(flds) == \A f \in Fields : validateField(f, flds[f]).isValid

(* ------------------------------------------------------------- persistence *)
NoItem == <<"absent">>

\* JSON.stringify of an object given as its <<key, value>> pairs in insertion order
RECURSIVE JSONstringifyPairs(_)
JSONstringifyPairs(pairs) ==
    IF pairs = <<>> THEN <<>>
    ELSE <<pairs[1][1], pairs[1][2]>> \o JSONstringifyPairs(Tail(pairs))

JSONstringify(pairs) == <<"{">> \o JSONstringifyPairs(pairs) \o <<"}">>

\* stored contents this script never writes: a truncated text, the text null,
\* a number
UnparseableText == <<"{", "name">>
NullText == <<"null">>
ScalarText == <<"42">>
CorruptItems == {UnparseableText, NullText, ScalarText}

\* what JSON.parse makes of a text: an object, null, another value, or a
\* SyntaxError ("invalid")
ParseKind(text) ==
    IF Len(text) >= 2 /\ text[1] = "{" /\ text[Len(text)] = "}" /\ Len(text) % 2 = 0
    THEN "object"
    ELSE IF text = NullText THEN "null"
    ELSE IF Len(text) = 1 THEN "scalar"
    ELSE "invalid"

\* JSON.parse of an object text: back to the <<key, value>> pairs
JSONparse(text) ==
    [i \in 1..((Len(text) - 2) \div 2) |-> <<text[2 * i], text[2 * i + 1]>>]

\* formData[name]; a missing key reads as the empty (falsy) value
Lookup(pairs, name) ==
    IF \E i \in 1..Len(pairs) : pairs[i][1] = name
    THEN pairs[CHOOSE i \in 1..Len(pairs) : pairs[i][1] = name][2]
    ELSE Empty

\* the object saveFormData builds: one entry per field whose trimmed value is non-empty
RECURSIVE SnapshotFrom(_, _)
SnapshotFrom(flds, names) ==
    IF names = <<>> THEN <<>>
    ELSE IF Trim(flds[Head(names)]) # Empty
         THEN <<<<Head(names), flds[Head(names)]>>>> \o SnapshotFrom(flds, Tail(names))
         ELSE SnapshotFrom(flds, Tail(names))

saveFormDataClearing(flds, item) ==
    IF Len(SnapshotFrom(flds, formInputs)) > 0
    THEN JSONstringify(SnapshotFrom(flds, formInputs))
    ELSE NoItem

\* saveFormData: the stored item after the call
saveFormData(flds, item) ==
    IF Len(SnapshotFrom(flds, formInputs)) > 0
    THEN JSONstringify(SnapshotFrom(flds, formInputs))
    ELSE item

\* the error raised inside loadFormData's try block: JSON.parse throws on an
\* unparseable text, formData[input.name] throws when formData is null
loadError(item) ==
    IF item = NoItem THEN "none"
    ELSE IF ParseKind(item) = "invalid" THEN "SyntaxError"
    ELSE IF ParseKind(item) = "null" THEN "TypeError"
    ELSE "none"

catchesSyntaxErrorOnly(err) == err = "SyntaxError"

\* loadFormData's catch clause takes whatever was thrown
catchesLoadError(err) == err # "none"

\* the DOMContentLoaded handler runs to its end: nothing escapes loadFormData,
\* so initFormPersistence attaches its listeners and initAnimations runs
initCompletes(item) == loadError(item) = "none" \/ catchesLoadError(loadError(item))

loadFormDataFirstOnly(flds, item) ==
    IF item # NoItem /\ ParseKind(item) = "object"
    THEN [f \in Fields |->
            IF f = formInputs[1] /\ Lookup(JSONparse(item), f) # Empty
            THEN Lookup(JSONparse(item), f) ELSE flds[f]]
    ELSE flds

\* loadFormData: the field values after the call
loadFormData(flds, item) ==
    IF item # NoItem /\ ParseKind(item) = "object"
    THEN [f \in Fields |->
            IF Lookup(JSONparse(item), f) # Empty
            THEN Lookup(JSONparse(item), f) ELSE flds[f]]
    ELSE flds

clearFormStorageKeeping(item) == item

\* clearFormStorage: the stored item after localStorage.removeItem
clearFormStorage(item) == NoItem

\* the field values of the markup, also what contactForm.reset() restores
DefaultFields == [f \in Fields |-> Empty]

(* ---------------------------------------------------------------- messages *)
showFormMessageNoHide(type, success, error) ==
    IF type = "success"
    THEN [success |-> TRUE, error |-> error, scroll |-> "form-success"]
    ELSE [success |-> success, error |-> TRUE, scroll |-> "form-error"]

\* showFormMessage: hide both regions, show one, scroll it into view
showFormMessage(type, success, error) ==
    IF type = "success"
    THEN [success |-> TRUE, error |-> FALSE, scroll |-> "form-success"]
    ELSE [success |-> FALSE, error |-> TRUE, scroll |-> "form-error"]

(* -------------------------------------------------------------------- menu *)
openMobileNav == [open |-> TRUE, aria |-> "true"]

closeMobileNavStaleAria == [open |-> FALSE, aria |-> "true"]

closeMobileNav == [open |-> FALSE, aria |-> "false"]

KeyClosesAny(key) == TRUE

\* the keydown handler's condition
KeyCloses(key) == key = "Escape"

ResizeClosesFromBreakpoint(width) == width >= Breakpoint

\* the resize handler's condition
ResizeCloses(width) == width > Breakpoint

OutsideClosesButMenu(where) == where # "menu"

\* the document click handler's condition, by where the click target lies
OutsideCloses(where) == where # "toggle" /\ where # "menu"

AnchorActsAlways(found) == TRUE

\* the anchor click handler's condition: getElementById found the target
AnchorActs(found) == found

(* -------------------------------------------------------------- submission *)
\* contactForm.action and the methods a form may declare
FormAction == "/contact"
FormMethods == {"POST", "GET"}

\* the fetch call of submitForm, for a form declaring the given method
fetchRequest(declared) ==
    [method |-> "POST", url |-> FormAction, accept |-> "application/json"]

fieldsAfterResponseResetting(outcome, flds) == DefaultFields

\* the field values once submitForm has handled the response: contactForm.reset()
\* on response.ok, nothing on the catch path
fieldsAfterResponse(outcome, flds) == IF outcome = "ok" THEN DefaultFields ELSE flds

(* ------------------------------------------------------------------- state *)
VARIABLES fields, fieldError, storage, label, disabled, inflight,
          successShown, errorShown, menuOpen, ariaExpanded,
          scrollPos, focus, lastEvent,
          pageReady,   \* the DOMContentLoaded handler ran to its end
          formMethod,  \* the method attribute of the form's markup
          probe,       \* the field last handed to validateField on its own
          verdict      \* what validateField returned for it

vars == <<fields, fieldError, storage, label, disabled, inflight,
          successShown, errorShown, menuOpen, ariaExpanded,
          scrollPos, focus, lastEvent, pageReady, formMethod, probe, verdict>>

formVars == <<fields, fieldError, storage, label, disabled, inflight,
              successShown, errorShown>>
menuVars == <<menuOpen, ariaExpanded>>
pageVars == <<pageReady, formMethod, probe, verdict>>

NoProbe == [kind |-> "none", required |-> FALSE, raw |-> Empty]
NoVerdict == [isValid |-> TRUE, errorMessage |-> NoMsg]

\* a freshly loaded page after the DOMContentLoaded handler has run
PageLoaded(item) ==
    /\ fields = loadFormData(DefaultFields, item)
    /\ fieldError = [f \in Fields |-> NoMsg]
    /\ storage = item
    /\ label = OriginalLabel
    /\ disabled = FALSE
    /\ inflight = <<>>
    /\ successShown = FALSE
    /\ errorShown = FALSE
    /\ menuOpen = FALSE
    /\ ariaExpanded = "false"
    /\ scrollPos = "top"
    /\ focus = "none"
    /\ pageReady = initCompletes(item)
    /\ probe = NoProbe
    /\ verdict = NoVerdict

\* the first load finds the storage empty or holding something left there
\* by someone else; the form's markup declares one of the given methods
PageInit(methods) ==
    /\ \E item \in {NoItem} \cup CorruptItems : PageLoaded(item)
    /\ formMethod \in methods
    /\ lastEvent = "load"

Init == PageInit({"POST"})

(* ----------------------------------------------------------------- actions *)
\* an input event on field f, which now holds v (the value it held or another):
\* clearFieldError, then saveFormData
Input(f, v) ==
    /\ fields' = [fields EXCEPT ![f] = v]
    /\ fieldError' = [fieldError EXCEPT ![f] = NoMsg]
    /\ storage' = IF pageReady THEN saveFormData(fields', storage) ELSE storage
    /\ lastEvent' = "input"
    /\ UNCHANGED <<label, disabled, inflight, successShown, errorShown,
                   menuVars, scrollPos, focus, pageVars>>

\* field f loses focus: validateField
Blur(f) ==
    /\ fieldError' = [fieldError EXCEPT ![f] = ShownMessage(f, fields[f])]
    /\ lastEvent' = "blur"
    /\ UNCHANGED <<fields, storage, label, disabled, inflight, successShown,
                   errorShown, menuVars, scrollPos, focus, pageVars>>

\* submit event: validateForm, then submitForm up to its await
Submit ==
    /\ fieldError' = validateFormErrors(fields, fieldError)
    /\ lastEvent' = "submit"
    /\ IF validateForm(fields)
       THEN /\ Len(inflight) < MaxInFlight
            /\ inflight' = Append(inflight, [originalText |-> label,
                                             request |-> fetchRequest(formMethod)])
            /\ label' = SendingLabel
            /\ disabled' = TRUE
       ELSE UNCHANGED <<inflight, label, disabled>>
    /\ UNCHANGED <<fields, storage, successShown, errorShown, menuVars,
                   scrollPos, focus, pageVars>>

RemoveAt(s, i) == SubSeq(s, 1, i - 1) \o SubSeq(s, i + 1, Len(s))

\* the fetch of request i settles: outcome "ok" (response.ok), "status"
\* (a non-2xx response) or "reject" (network failure); submitForm resumes
Response(i, outcome) ==
    /\ i \in 1..Len(inflight)
    /\ LET type == IF outcome = "ok" THEN "success" ELSE "error"
           shown == showFormMessage(type, successShown, errorShown)
       IN /\ successShown' = shown.success
          /\ errorShown' = shown.error
          /\ scrollPos' = shown.scroll
    /\ fields' = fieldsAfterResponse(outcome, fields)
    /\ storage' = IF outcome = "ok" THEN clearFormStorage(storage) ELSE storage
    /\ label' = inflight[i].originalText
    /\ disabled' = FALSE
    /\ inflight' = RemoveAt(inflight, i)
    /\ lastEvent' = IF outcome = "ok" THEN "ok" ELSE "fail"
    /\ UNCHANGED <<fieldError, menuVars, focus, pageVars>>

SetMenu(m) == menuOpen' = m.open /\ ariaExpanded' = m.aria

\* click on the toggle control: its own handler, then the document handler
ToggleClick ==
    /\ LET flipped == IF menuOpen THEN closeMobileNav ELSE openMobileNav
       IN IF OutsideCloses("toggle") THEN SetMenu(closeMobileNav) ELSE SetMenu(flipped)
    /\ lastEvent' = "toggle"
    /\ UNCHANGED <<formVars, scrollPos, focus, pageVars>>

\* click on something that is neither an anchor link nor the toggle:
\* where = "menu" (inside the menu) or "page" (anywhere else)
Click(where) ==
    /\ IF OutsideCloses(where) THEN SetMenu(closeMobileNav) ELSE UNCHANGED menuVars
    /\ lastEvent' = IF where = "menu" THEN "inside" ELSE "outside"
    /\ UNCHANGED <<formVars, scrollPos, focus, pageVars>>

\* click on an in-page anchor link lying in the menu or elsewhere on the page,
\* whose fragment resolves to an element or not: the link's handler, then the
\* document handler
AnchorClick(where, found) ==
    /\ IF AnchorActs(found)
       THEN /\ scrollPos' = "target"
            /\ focus' = "target"
       ELSE UNCHANGED <<scrollPos, focus>>
    /\ IF AnchorActs(found) \/ OutsideCloses(where)
       THEN SetMenu(closeMobileNav)
       ELSE UNCHANGED menuVars
    /\ lastEvent' = CASE where = "menu" /\ found -> "anchorInHit"
                      [] where = "menu" /\ ~found -> "anchorInMiss"
                      [] where # "menu" /\ found -> "anchorOutHit"
                      [] OTHER -> "anchorOutMiss"
    /\ UNCHANGED <<formVars, pageVars>>

KeyDown(key) ==
    /\ IF KeyCloses(key) THEN SetMenu(closeMobileNav) ELSE UNCHANGED menuVars
    /\ lastEvent' = IF key = "Escape" THEN "escape" ELSE "key"
    /\ UNCHANGED <<formVars, scrollPos, focus, pageVars>>

Resize(width) ==
    /\ IF ResizeCloses(width) THEN SetMenu(closeMobileNav) ELSE UNCHANGED menuVars
    /\ lastEvent' = IF width > Breakpoint THEN "resizeWide" ELSE "resizeNarrow"
    /\ UNCHANGED <<formVars, scrollPos, focus, pageVars>>

\* the page is loaded again: a new document, the script re-run against the
\* same localStorage; requests of the old page are gone with it
Reload ==
    /\ fields' = loadFormData(DefaultFields, storage)
    /\ fieldError' = [f \in Fields |-> NoMsg]
    /\ storage' = storage
    /\ label' = OriginalLabel
    /\ disabled' = FALSE
    /\ inflight' = <<>>
    /\ successShown' = FALSE
    /\ errorShown' = FALSE
    /\ menuOpen' = FALSE
    /\ ariaExpanded' = "false"
    /\ scrollPos' = "top"
    /\ focus' = "none"
    /\ pageReady' = initCompletes(storage)
    /\ lastEvent' = "reload"
    /\ UNCHANGED <<formMethod, probe, verdict>>

Next ==
    \/ \E f \in Fields : \E v \in InputValues(f) : Input(f, v)
    \/ \E f \in Fields : Blur(f)
    \/ Submit
    \/ \E i \in 1..MaxInFlight : \E outcome \in {"ok", "status", "reject"} : Response(i, outcome)
    \/ ToggleClick
    \/ \E where \in {"menu", "page"} : Click(where)
    \/ \E where \in {"menu", "page"} : \E found \in BOOLEAN : AnchorClick(where, found)
    \/ \E key \in {"Escape", "Enter"} : KeyDown(key)
    \/ \E width \in {Breakpoint, Breakpoint + 1} : Resize(width)
    \/ Reload

Spec == Init /\ [][Next]_vars

(* ------------------------------------------- the form under any method *)
\* the form's own events, for a form whose markup declares any method
InitForm == PageInit(FormMethods)

NextForm ==
    \/ \E f \in Fields : \E v \in InputValues(f) : Input(f, v)
    \/ \E f \in Fields : Blur(f)
    \/ Submit
    \/ \E i \in 1..MaxInFlight : \E outcome \in {"ok", "status", "reject"} : Response(i, outcome)
    \/ Reload

SpecForm == InitForm /\ [][NextForm]_vars

(* ------------------------------------------------ validateField on its own *)
RECURSIVE StringsUpTo(_, _)
StringsUpTo(alphabet, n) ==
    IF n = 0 THEN {<<>>}
    ELSE LET shorter == StringsUpTo(alphabet, n - 1)
         IN shorter \cup {Append(t, c) : t \in shorter, c \in alphabet}

TextStrings == StringsUpTo({"x", " "}, MaxTextLen)
EmailStrings == StringsUpTo({"a", "@", ".", " ", "U+00A0"}, MaxEmailLen)

InitValidate ==
    /\ PageLoaded(NoItem)
    /\ formMethod = "POST"
    /\ lastEvent = "load"

\* validateField called once on a field of the given kind, required flag and value
Validate(kind, required, raw) ==
    /\ probe = NoProbe
    /\ probe' = [kind |-> kind, required |-> required, raw |-> raw]
    /\ verdict' = validateFieldOf(kind, required, raw)
    /\ lastEvent' = "validate"
    /\ UNCHANGED <<formVars, menuVars, scrollPos, focus, pageReady, formMethod>>

\* the values still to be handed to validateField: none once it has been called
Pending(values) == IF probe = NoProbe THEN values ELSE {}

NextValidate ==
    \/ \E required \in BOOLEAN : \E raw \in Pending(TextStrings) : Validate("TEXTAREA", required, raw)
    \/ \E required \in BOOLEAN : \E raw \in Pending(EmailStrings) : Validate("email", required, raw)

SpecValidate == InitValidate /\ [][NextValidate]_vars

(* ------------------------------------------------------------- properties *)
\* helpers of the properties, written from the rules rather than from the
\* operators above
IsBlank(s) == \A k \in 1..Len(s) : IsSpace(s[k])
AllBlank(flds) == \A f \in Fields : IsBlank(flds[f])
SomeFieldFails(flds) == \E f \in Fields : ~validateField(f, flds[f]).isValid
StoredNames == {JSONparse(storage)[i][1] : i \in 1..Len(JSONparse(storage))}
StoredValue(f) == Lookup(JSONparse(storage), f)

\* C1: the persisted snapshot never has an entry for a field whose current
\* value is empty.
C1_SnapshotOmitsEmptyFields ==
    storage # NoItem => \A f \in StoredNames : fields[f] # Empty

\* C2: aria-expanded is 'true' exactly when the menu carries the open class.
C2_AriaAgreesWithMenu == (ariaExpanded = "true") <=> menuOpen

C2_Witness == lastEvent = "toggle" /\ menuOpen /\ ariaExpanded = "true"

\* C3 as stated: the menu state changes only on a toggle click, a click outside
\* toggle and menu, Escape, or a resize above the breakpoint (a reload, which
\* builds a new page, aside); a click on an anchor link inside the menu never
\* changes it.
C3_OnlyFourTriggers ==
    [][menuOpen' # menuOpen =>
         lastEvent' \in {"toggle", "outside", "escape", "resizeWide",
                         "anchorOutHit", "anchorOutMiss", "reload"}]_vars

\* C3 amended: within one page load the menu state changes only on one of the
\* four triggers or on a click on an in-page anchor link whose target exists,
\* which closes the menu wherever the link lies.
C3_FourTriggersOrAnchorHit ==
    [][menuOpen' # menuOpen =>
         lastEvent' \in {"toggle", "outside", "escape", "resizeWide",
                         "anchorOutHit", "anchorOutMiss", "anchorInHit", "reload"}]_vars

C3_Witness == lastEvent = "anchorInHit" /\ ~menuOpen /\ focus = "target"

\* C4: while a request is in flight the submit control is disabled and carries
\* the in-progress label; once every submission has completed it is enabled and
\* carries the label it had before submitting.
C4_SubmitControlFollowsRequest ==
    /\ inflight # <<>> => (disabled /\ label = SendingLabel)
    /\ inflight = <<>> => (~disabled /\ label = OriginalLabel)

\* C5: handling a failed submission (rejection or non-2xx status) changes no
\* field value and leaves the persisted snapshot as it was.
C5_FailureKeepsInput ==
    [][lastEvent' = "fail" => (fields' = fields /\ storage' = storage)]_vars

C5_Witness ==
    /\ lastEvent = "fail"
    /\ errorShown
    /\ storage # NoItem
    /\ SomeFieldFails(fields)
    /\ ~AllBlank(fields)

\* C6: right after a successful response all fields are reset and the snapshot
\* is absent, and a reload that follows immediately restores no field value.
C6_SuccessClearsAll ==
    [][/\ lastEvent' = "ok" => (fields' = DefaultFields /\ storage' = NoItem)
       /\ (lastEvent = "ok" /\ lastEvent' = "reload") => fields' = DefaultFields]_vars

C6_Witness ==
    /\ lastEvent = "ok"
    /\ successShown
    /\ \E f \in Fields : fieldError[f] # NoMsg

\* C7: the success and failure regions are never both shown; after a failed
\* submission only the failure region is shown, after a successful one only the
\* success region.
C7_OneMessageRegion ==
    /\ ~(successShown /\ errorShown)
    /\ lastEvent = "fail" => (errorShown /\ ~successShown)
    /\ lastEvent = "ok" => (successShown /\ ~errorShown)

C7_Witness == lastEvent = "fail" /\ errorShown /\ inflight # <<>>

\* C8: a submit event while some field fails its rules starts no request,
\* leaves the submit control alone and writes nothing to storage; a request is
\* started only by a submit event on a form whose every field passes.
C8_RequestOnlyAfterValidation ==
    [][/\ (lastEvent' = "submit" /\ SomeFieldFails(fields)) =>
            /\ inflight' = inflight
            /\ label' = label
            /\ disabled' = disabled
            /\ storage' = storage
       /\ Len(inflight') > Len(inflight) =>
            (lastEvent' = "submit" /\ ~SomeFieldFails(fields))]_vars

C8_Witness ==
    /\ lastEvent = "submit"
    /\ SomeFieldFails(fields)
    /\ \E f \in Fields : fieldError[f] # NoMsg
    /\ inflight = <<>>
    /\ ~disabled

\* C9 as stated: a reload right after an input event, some field being
\* non-empty, restores every non-empty field to its value and leaves the
\* others empty.
C9_ReloadRestoresNonEmpty ==
    [][(lastEvent = "input" /\ lastEvent' = "reload"
          /\ \E f \in Fields : fields[f] # Empty) =>
         \A f \in Fields : fields'[f] = fields[f]]_vars

\* C9 amended: a reload right after an input event, some field holding a
\* non-whitespace character, restores every field whose value is not empty or
\* whitespace-only to exactly that value and leaves every other field empty.
C9_ReloadRestoresNonBlank ==
    [][(lastEvent = "input" /\ lastEvent' = "reload" /\ ~AllBlank(fields)) =>
         \A f \in Fields :
            fields'[f] = IF IsBlank(fields[f]) THEN Empty ELSE fields[f]]_vars

C9_Witness ==
    /\ lastEvent = "reload"
    /\ fields["name"] # Empty
    /\ fields["email"] # Empty
    /\ fields["message"] = Empty

\* C10: an input event that leaves every field empty or whitespace-only writes
\* nothing to storage, and a reload right after it restores the values of the
\* snapshot that was left in place.
C10_AllBlankInputKeepsStorage ==
    [][/\ (lastEvent' = "input" /\ AllBlank(fields')) => storage' = storage
       /\ (lastEvent = "input" /\ AllBlank(fields) /\ storage # NoItem
             /\ lastEvent' = "reload") =>
            \A f \in Fields : fields'[f] = StoredValue(f)]_vars

C10_Witness ==
    /\ lastEvent = "input"
    /\ AllBlank(fields)
    /\ storage # NoItem

\* C11: whatever the storage holds that is not a field mapping (nothing, an
\* unparseable text, the text null, a number), initialization runs to its end,
\* so the listeners and the later components are set up, and a page just
\* loaded over such a content has every field at its default.
C11_CorruptSnapshotIsEmpty ==
    /\ pageReady
    /\ (lastEvent \in {"load", "reload"} /\ storage \in {NoItem} \cup CorruptItems)
          => fields = DefaultFields

C11_Witness == lastEvent = "reload" /\ storage = NullText /\ pageReady

\* C12: a click on the toggle control flips the menu state, the document-level
\* click handler having seen the same click.
C12_ToggleFlips == [][lastEvent' = "toggle" => menuOpen' = ~menuOpen]_vars

C12_Witness == lastEvent = "toggle" /\ ~menuOpen /\ ariaExpanded = "false"

\* C13: an outside click, Escape or a resize above the breakpoint leaves the
\* menu closed; a resize at or below the breakpoint and any other key leave the
\* menu state as it was.
C13_ForcedClose ==
    [][/\ lastEvent' \in {"outside", "escape", "resizeWide"} => ~menuOpen'
       /\ lastEvent' \in {"resizeNarrow", "key"} => menuOpen' = menuOpen]_vars

C13_Witness == lastEvent = "resizeNarrow" /\ menuOpen

\* C18: a click on an anchor link whose target is missing scrolls nothing and
\* moves no focus, and leaves the menu alone when the link lies inside it; a
\* click on a link whose target exists scrolls to it, focuses it and closes
\* the menu.
C18_MissingTargetIsNoOp ==
    [][/\ lastEvent' \in {"anchorInMiss", "anchorOutMiss"} =>
            (scrollPos' = scrollPos /\ focus' = focus)
       /\ lastEvent' = "anchorInMiss" =>
            (menuOpen' = menuOpen /\ ariaExpanded' = ariaExpanded)
       /\ lastEvent' \in {"anchorInHit", "anchorOutHit"} =>
            (scrollPos' = "target" /\ focus' = "target" /\ ~menuOpen')]_vars

C18_Witness == lastEvent = "anchorInMiss" /\ menuOpen /\ focus = "none"

\* C14 as stated: a multiline field is invalid with the length message whenever
\* its trimmed length is under 10, and valid whenever it is 10 or more, whatever
\* its required flag.
C14_LengthRule ==
    probe.kind = "TEXTAREA" =>
        /\ Len(Trim(probe.raw)) < MinLength =>
              (~verdict.isValid /\ verdict.errorMessage = LengthMsg)
        /\ Len(Trim(probe.raw)) >= MinLength => verdict.isValid

\* C14 amended: a multiline field is invalid with the length message whenever
\* its trimmed length is between 1 and 9, and valid whenever it is 10 or more;
\* with trimmed length 0 it is invalid with the required message when it is
\* required and valid when it is not.
C14_LengthRuleNonEmpty ==
    probe.kind = "TEXTAREA" =>
        /\ (0 < Len(Trim(probe.raw)) /\ Len(Trim(probe.raw)) < MinLength) =>
              (~verdict.isValid /\ verdict.errorMessage = LengthMsg)
        /\ Len(Trim(probe.raw)) >= MinLength => verdict.isValid
        /\ (Len(Trim(probe.raw)) = 0 /\ probe.required) =>
              (~verdict.isValid /\ verdict.errorMessage = RequiredMsg)
        /\ (Len(Trim(probe.raw)) = 0 /\ ~probe.required) => verdict.isValid

C14_Witness ==
    /\ probe.kind = "TEXTAREA"
    /\ ~probe.required
    /\ probe.raw # Empty
    /\ Len(Trim(probe.raw)) = 0
    /\ verdict.isValid

\* C15: on submit every field is validated: afterwards each failing field
\* displays its own message and each passing field none, and the request is
\* started exactly when every field passes.
C15_AllFieldsEvaluated ==
    [][lastEvent' = "submit" =>
         /\ \A f \in Fields :
               fieldError'[f] = IF validateField(f, fields[f]).isValid
                                THEN NoMsg
                                ELSE validateField(f, fields[f]).errorMessage
         /\ (Len(inflight') > Len(inflight)) <=>
               (\A f \in Fields : validateField(f, fields[f]).isValid)]_vars

C15_Witness ==
    /\ lastEvent = "submit"
    /\ fieldError["name"] = RequiredMsg
    /\ fieldError["email"] = EmailMsg
    /\ fieldError["message"] = NoMsg
    /\ fields["message"] # Empty

\* the local-part '@' domain '.' tld shape: three non-empty parts free of
\* whitespace and '@'
IsEmailPart(s) == s # <<>> /\ \A k \in 1..Len(s) : s[k] \notin WhiteSpaceChars \cup {"@"}
HasEmailShape(s) ==
    \E a \in 1..Len(s) : \E d \in 1..Len(s) :
        /\ a < d
        /\ s[a] = "@"
        /\ s[d] = "."
        /\ IsEmailPart(SubSeq(s, 1, a - 1))
        /\ IsEmailPart(SubSeq(s, a + 1, d - 1))
        /\ IsEmailPart(SubSeq(s, d + 1, Len(s)))

\* C16 as stated: an email field holding a non-empty S is valid exactly when S
\* itself has the shape, without whitespace anywhere, and when invalid carries
\* the email message.
C16_EmailShape ==
    (probe.kind = "email" /\ probe.raw # Empty) =>
        /\ verdict.isValid <=> HasEmailShape(probe.raw)
        /\ ~verdict.isValid => verdict.errorMessage = EmailMsg

\* C16 amended: an email field holding S with a non-whitespace character is
\* valid exactly when S without its leading and trailing whitespace has the
\* shape, and when invalid carries the email message; a whitespace-only S is
\* left to the required rule.
C16_EmailShapeTrimmed ==
    probe.kind = "email" =>
        /\ ~IsBlank(probe.raw) =>
              /\ verdict.isValid <=> HasEmailShape(Trim(probe.raw))
              /\ ~verdict.isValid => verdict.errorMessage = EmailMsg
        /\ IsBlank(probe.raw) =>
              /\ verdict.isValid <=> ~probe.required
              /\ ~verdict.isValid => verdict.errorMessage = RequiredMsg

C16_Witness ==
    /\ probe.kind = "email"
    /\ probe.raw = <<" ", "a", "@", "a", ".", "a">>
    /\ verdict.isValid

\* C17: every request a submission issues carries the method the form
\* declares, goes to the form's action and asks for a JSON response.
C17_RequestUsesDeclaredMethod ==
    \A i \in 1..Len(inflight) :
        /\ inflight[i].request.method = formMethod
        /\ inflight[i].request.url = FormAction
        /\ inflight[i].request.accept = "application/json"

\* C19: at most one request is in flight, and no submission has taken the
\* in-progress label for the label to restore.
C19_NoReentrantSubmission ==
    /\ Len(inflight) <= 1
    /\ \A i \in 1..Len(inflight) : inflight[i].originalText # SendingLabel

====
